---- MODULE Spec2Model ----
(***************************************************************************)
(* A model of minheap.py: class MinHeap, an array-encoded binary min-heap  *)
(* of floats.  Indices are 0-based as in the source; self.data is a TLA+   *)
(* sequence, so the element at source index i is data[i + 1].              *)
(***************************************************************************)
EXTENDS Integers, Sequences, FiniteSets

\* ------------------------------------------------------------------ bounds
\* Finite floats are modelled by the integers 0 .. MaxVal.
MaxVal == 2
\* Longest list handed to one push call.
MaxBatch == 2
\* Single-value pushes made between two clears; it also bounds the heap's length.
MaxOps == 5

\* ------------------------------------------------------------------ values
\* float('nan'): a float that every ordered comparison answers False for.
NaN == -1
\* Python's None, which _get_value returns for an index past the end.
None == -2
\* What a helper yields when it raises instead of returning.
Raised == -3

Finite == 0 .. MaxVal
Floats == Finite \cup {NaN}

\* Exceptions a call can end with ("ok": it returned normally).
Ok == "ok"
ValueError == "ValueError"
HeapIsEmpty == "MinHeapError: Heap is empty"
RootHasNoParent == "MinHeapError: Root node has no parent"
NodeDoesNotExist == "MinHeapError: Node does not exist"

\* Python 2 ordering of the values the heap compares: None sorts before every
\* number, and any comparison involving NaN is False.
Lt(a, b) ==
    IF a = None \/ b = None THEN a = None /\ b # None
    ELSE a # NaN /\ b # NaN /\ a < b

Gt(a, b) == Lt(b, a)

\* ------------------------------------------------------------------ inputs
\* An argument of push is a number or a string (a sequence of characters).
Number(k) == [type |-> "float", num |-> k, str |-> <<>>]
String(s) == [type |-> "str", num |-> 0, str |-> s]

Digits == {"0", "1", "2", "3", "4", "5", "6", "7", "8", "9"}

DigitValue(c) ==
    CASE c = "0" -> 0 [] c = "1" -> 1 [] c = "2" -> 2 [] c = "3" -> 3
      [] c = "4" -> 4 [] c = "5" -> 5 [] c = "6" -> 6 [] c = "7" -> 7
      [] c = "8" -> 8 [] c = "9" -> 9

RECURSIVE Decimal(_)
Decimal(s) ==
    IF s = <<>> THEN 0
    ELSE 10 * Decimal(SubSeq(s, 1, Len(s) - 1)) + DigitValue(s[Len(s)])

IsDecimal(s) == s # <<>> /\ \A i \in 1 .. Len(s) : s[i] \in Digits

\* float(value) of line 71: a number is taken as it is, a string is parsed;
\* "nan" parses to NaN and a string that is no number raises ValueError.
CanConvert(value) ==
    \/ value.type = "float"
    \/ IsDecimal(value.str)
    \/ value.str = <<"n", "a", "n">>

ToFloat(value) ==
    IF value.type = "float" THEN value.num
    ELSE IF value.str = <<"n", "a", "n">> THEN NaN
    ELSE Decimal(value.str)

Strings ==
    {<<"1">>, <<"0", "1">>, <<"0">>, <<"n", "a", "n">>, <<"a", "b", "c">>, <<>>}

Inputs == {Number(k) : k \in Floats} \cup {String(s) : s \in Strings}

RECURSIVE SeqsUpTo(_, _)
SeqsUpTo(S, n) ==
    IF n = 0 THEN {<<>>}
    ELSE LET shorter == SeqsUpTo(S, n - 1)
         IN shorter \cup {Append(q, x) : q \in {r \in shorter : Len(r) = n - 1}, x \in S}

\* The items a list argument is built from: two numbers, "nan", and a string
\* that is no number.
ListItems ==
    {Number(0), Number(1), String(<<"n", "a", "n">>), String(<<"a", "b", "c">>)}

Lists == SeqsUpTo(ListItems, MaxBatch)

\* ------------------------------------------------------------------ helpers
\* A heap in the middle of a call: the array, and the exception raised so far.
\* Once an exception is raised the rest of the call is skipped.
Heap(d) == [data |-> d, err |-> Ok]

Raise(h, e) == IF h.err = Ok THEN [h EXCEPT !.err = e] ELSE h

\* A parent index computed as for a heap stored from index 1: idx // 2.
get_parent_idx_one_based(idx) == IF idx = 0 THEN Raised ELSE idx \div 2

get_parent_idx(idx) == IF idx = 0 THEN Raised ELSE (idx - 1) \div 2

get_left_idx(idx) == (2 * idx) + 1

get_right_idx(idx) == (2 * idx) + 2

get_value(h, idx) ==
    IF Len(h.data) - 1 < idx THEN None ELSE h.data[idx + 1]

set_value(h, idx, value) ==
    IF h.err # Ok THEN h
    ELSE IF Len(h.data) - 1 < idx THEN Raise(h, NodeDoesNotExist)
    ELSE [h EXCEPT !.data[idx + 1] = value]

\* A _swap with no temp: idx2 gets back the value it has just given to idx1.
swap_without_temp(h, idx1, idx2) ==
    LET h1 == set_value(h, idx1, get_value(h, idx2))
    IN set_value(h1, idx2, get_value(h1, idx1))

swap(h, idx1, idx2) ==
    LET temp == get_value(h, idx1)
        h1 == set_value(h, idx1, get_value(h, idx2))
    IN set_value(h1, idx2, temp)

\* A _bubble_up that asks for the parent before looking whether it is at the root.
up_step_no_root_check(h, idx) ==
    IF h.err # Ok THEN [h |-> h, idx |-> idx, swapped |-> FALSE]
    ELSE LET parent_idx == get_parent_idx(idx)
         IN IF parent_idx = Raised
            THEN [h |-> Raise(h, RootHasNoParent), idx |-> idx, swapped |-> FALSE]
            ELSE IF Lt(get_value(h, idx), get_value(h, parent_idx))
            THEN [h |-> swap(h, idx, parent_idx), idx |-> parent_idx, swapped |-> TRUE]
            ELSE [h |-> h, idx |-> idx, swapped |-> FALSE]

\* A _bubble_up that also swaps a node with a parent of equal value: <=.
up_step_swaps_equal(h, idx) ==
    IF h.err # Ok \/ idx = 0 THEN [h |-> h, idx |-> idx, swapped |-> FALSE]
    ELSE LET parent_idx == get_parent_idx(idx)
         IN IF parent_idx = Raised
            THEN [h |-> Raise(h, RootHasNoParent), idx |-> idx, swapped |-> FALSE]
            ELSE IF ~Lt(get_value(h, parent_idx), get_value(h, idx))
            THEN [h |-> swap(h, idx, parent_idx), idx |-> parent_idx, swapped |-> TRUE]
            ELSE [h |-> h, idx |-> idx, swapped |-> FALSE]

\* One invocation of _bubble_up (lines 150-157): the heap it leaves, whether it
\* swapped, and the index it then calls itself with.
up_step(h, idx) ==
    IF h.err # Ok \/ idx = 0 THEN [h |-> h, idx |-> idx, swapped |-> FALSE]
    ELSE LET parent_idx == get_parent_idx(idx)
         IN IF parent_idx = Raised
            THEN [h |-> Raise(h, RootHasNoParent), idx |-> idx, swapped |-> FALSE]
            ELSE IF Lt(get_value(h, idx), get_value(h, parent_idx))
            THEN [h |-> swap(h, idx, parent_idx), idx |-> parent_idx, swapped |-> TRUE]
            ELSE [h |-> h, idx |-> idx, swapped |-> FALSE]

RECURSIVE bubble_up(_, _)
bubble_up(h, idx) ==
    LET r == up_step(h, idx)
    IN IF r.swapped THEN bubble_up(r.h, r.idx) ELSE r.h

\* A choice of child that never looks at the right one.
smaller_child_always_left(h, idx) == get_left_idx(idx)

\* A choice of child that prefers the left one when the two are equal.
smaller_child_left_on_ties(h, idx) ==
    LET left_idx == get_left_idx(idx)
        right_idx == get_right_idx(idx)
        left_val == get_value(h, left_idx)
        right_val == get_value(h, right_idx)
    IN IF right_val = None \/ ~Lt(right_val, left_val) THEN left_idx ELSE right_idx

\* The child _bubble_down compares the node with (lines 185-190): the left one
\* if there is no right one or left_val < right_val, else the right one.
smaller_child(h, idx) ==
    LET left_idx == get_left_idx(idx)
        right_idx == get_right_idx(idx)
        left_val == get_value(h, left_idx)
        right_val == get_value(h, right_idx)
    IN IF right_val = None \/ Lt(left_val, right_val) THEN left_idx ELSE right_idx

\* One invocation of _bubble_down (lines 176-196): the heap it leaves, whether
\* it swapped, and the index it then calls itself with.
down_step(h, idx) ==
    IF h.err # Ok THEN [h |-> h, idx |-> idx, swapped |-> FALSE]
    ELSE
    LET left_val == get_value(h, get_left_idx(idx))
        right_val == get_value(h, get_right_idx(idx))
        smaller_idx == smaller_child(h, idx)
        smaller_val == get_value(h, smaller_idx)
        value == get_value(h, idx)
    IN IF left_val = None /\ right_val = None
       THEN [h |-> h, idx |-> idx, swapped |-> FALSE]
       ELSE IF Gt(value, smaller_val)
            THEN [h |-> swap(h, idx, smaller_idx), idx |-> smaller_idx, swapped |-> TRUE]
            ELSE [h |-> h, idx |-> idx, swapped |-> FALSE]

RECURSIVE bubble_down(_, _)
bubble_down(h, idx) ==
    LET r == down_step(h, idx)
    IN IF r.swapped THEN bubble_down(r.h, r.idx) ELSE r.h

\* list.append (line 75) and list.pop() (lines 94, 98) on self.data.
append(d, insert_val) == Append(d, insert_val)

\* A list.pop() that hands back the only element without removing it.
list_pop_keeps_last(d) == IF Len(d) = 1 THEN d ELSE SubSeq(d, 1, Len(d) - 1)

list_pop(d) == SubSeq(d, 1, Len(d) - 1)

\* A push call in progress: the array, the exception raised so far, and the
\* values the call has appended (one per single-value push that converted).
Call(d) == [data |-> d, err |-> Ok, done |-> <<>>]

\* A push that appends its argument first and converts it afterwards, so that
\* an argument that does not convert is already stored when the error is raised.
push_value_converts_late(c, value) ==
    IF c.err # Ok THEN c
    ELSE IF ~CanConvert(value)
    THEN [data |-> Append(c.data, None), err |-> ValueError, done |-> c.done]
    ELSE LET insert_val == ToFloat(value)
             appended == Heap(append(c.data, insert_val))
             h == bubble_up(appended, Len(appended.data) - 1)
         IN [data |-> h.data, err |-> h.err, done |-> Append(c.done, insert_val)]

\* push of a value that is no list (lines 70-76).
push_value(c, value) ==
    IF c.err # Ok THEN c
    ELSE IF ~CanConvert(value) THEN [c EXCEPT !.err = ValueError]
    ELSE LET insert_val == ToFloat(value)
             appended == Heap(append(c.data, insert_val))
             h == bubble_up(appended, Len(appended.data) - 1)
         IN [data |-> h.data, err |-> h.err, done |-> Append(c.done, insert_val)]

\* A list push that takes the items from the end of the list.
RECURSIVE push_list_from_end(_, _)
push_list_from_end(c, items) ==
    IF items = <<>> THEN c
    ELSE push_list_from_end(push_value(c, items[Len(items)]),
                            SubSeq(items, 1, Len(items) - 1))

\* push of a list (lines 67-69): the items are pushed one by one, in order,
\* and the first exception ends the loop.
RECURSIVE push_list(_, _)
push_list(c, items) ==
    IF items = <<>> THEN c
    ELSE push_list(push_value(c, Head(items)), Tail(items))

\* pop (lines 78-102): the array afterwards, the exception, the value returned.
\* A pop that returns None on an empty heap instead of raising.
pop_empty_returns_none(d) == [data |-> d, err |-> Ok, value |-> None]

pop_empty(d) == [data |-> d, err |-> HeapIsEmpty, value |-> None]

pop_single(d) == [data |-> list_pop(d), err |-> Ok, value |-> d[Len(d)]]

pop_root(d) ==
    LET size == Len(d)
        last_idx == size - 1
        swapped == swap(Heap(d), 0, last_idx)
        value == swapped.data[size]
        popped == [swapped EXCEPT !.data = list_pop(swapped.data)]
        h == bubble_down(popped, 0)
    IN [data |-> h.data, err |-> h.err, value |-> IF h.err = Ok THEN value ELSE None]

pop(d) ==
    LET size == Len(d)
    IN IF size = 0 THEN pop_empty(d)
       ELSE IF size = 1 THEN pop_single(d)
       ELSE pop_root(d)

\* A clear that leaves the root in place.
clear_keeps_root(d) == IF d = <<>> THEN d ELSE <<d[1]>>

\* clear (lines 43-49).
clear(d) == <<>>

\* ------------------------------------------------------------------- state
VARIABLES
    data,      \* self.data
    debug,     \* self.debug
    op,        \* the last call made: "init", "push", "push_list", "pop", "clear"
    err,       \* the exception the last call raised, or Ok
    returned,  \* what the last call returned (None unless a pop returned)
    nPush,     \* single-value pushes that succeeded since the last clear
    nPop,      \* pops that succeeded since the last clear
    phase,     \* "fill": only pushes since the heap was last empty;
               \* "drain": those pushes, then only pops; "mixed": anything else
    pushed,    \* fill/drain: how many times each value was pushed
    out,       \* drain: the values popped, in order
    pc,        \* where the call in progress stands: "idle" (no call), "up"
               \* (about to enter _bubble_up), "down" (about to enter _bubble_down)
    idx,       \* the idx argument of the _bubble_up/_bubble_down about to run
    swaps,     \* swaps the sift of the call in progress has made
    before,    \* self.data when the call in progress was made
    arg,       \* the argument of the push in progress
    smaller_idx,  \* the child the last _bubble_down compared its node with
    text       \* what the last step printed (debug mode) or returned (str())

\* The variables that follow a call through its sift, one invocation at a time.
stepVars == <<pc, idx, swaps, before, arg, smaller_idx, text>>

\* The variables that count calls and record the order of the values popped.
countVars == <<nPush, nPop, phase, pushed, out>>

vars == <<data, debug, op, err, returned, nPush, nPop, phase, pushed, out,
          pc, idx, swaps, before, arg, smaller_idx, text>>

NoCounts == [x \in Floats |-> 0]

RECURSIVE Counts(_)
Counts(s) ==
    IF s = <<>> THEN NoCounts
    ELSE LET rest == Counts(Tail(s))
         IN [rest EXCEPT ![Head(s)] = @ + 1]

Plus(f, g) == [x \in Floats |-> f[x] + g[x]]

\* No call in progress.
NoCall ==
    /\ pc = "idle"
    /\ idx = 0
    /\ swaps = 0
    /\ before = <<>>
    /\ arg = Number(0)
    /\ smaller_idx = None
    /\ text = [tree |-> <<>>, line |-> "", num |-> 0]

\* The state a constructor call MinHeap(debug) leaves (lines 28-41).
Constructed(dbg) ==
    /\ data = <<>>
    /\ debug = dbg
    /\ op = "init"
    /\ err = Ok
    /\ returned = None
    /\ nPush = 0
    /\ nPop = 0
    /\ phase = "fill"
    /\ pushed = NoCounts
    /\ out = <<>>
    /\ NoCall

\* MinHeap(): debug defaults to False (line 28), and the debug branches of
\* _bubble_up and _bubble_down only print.
Init == Constructed(FALSE)

\* What the bookkeeping variables record of a push call that appended `done`.
NotePushes(done) ==
    /\ nPush' = nPush + Len(done)
    /\ nPop' = nPop
    /\ IF done = <<>> THEN UNCHANGED <<phase, pushed, out>>
       ELSE IF phase = "fill" THEN
            /\ phase' = "fill"
            /\ pushed' = Plus(pushed, Counts(done))
            /\ out' = out
       ELSE IF data = <<>> THEN
            /\ phase' = "fill"
            /\ pushed' = Counts(done)
            /\ out' = <<>>
       ELSE /\ phase' = "mixed"
            /\ pushed' = NoCounts
            /\ out' = <<>>

\* h.push(v) for a v that is no list.
Push(v) ==
    /\ nPush < MaxOps
    /\ LET c == push_value(Call(data), v)
       IN /\ data' = c.data
          /\ err' = c.err
          /\ NotePushes(c.done)
    /\ op' = "push"
    /\ returned' = None
    /\ UNCHANGED <<debug, stepVars>>

\* h.push(items) for a list.
PushList(items) ==
    /\ nPush + Len(items) <= MaxOps
    /\ LET c == push_list(Call(data), items)
       IN /\ data' = c.data
          /\ err' = c.err
          /\ NotePushes(c.done)
    /\ op' = "push_list"
    /\ returned' = None
    /\ UNCHANGED <<debug, stepVars>>

\* h.pop()
Pop ==
    /\ LET r == pop(data)
       IN /\ data' = r.data
          /\ err' = r.err
          /\ returned' = r.value
          /\ IF r.err = Ok
             THEN /\ nPop' = nPop + 1
                  /\ IF phase = "mixed" THEN UNCHANGED <<phase, pushed, out>>
                     ELSE /\ phase' = "drain"
                          /\ pushed' = pushed
                          /\ out' = Append(out, r.value)
             ELSE UNCHANGED <<nPop, phase, pushed, out>>
    /\ op' = "pop"
    /\ UNCHANGED <<debug, nPush, stepVars>>

\* h.clear()
Clear ==
    /\ data' = clear(data)
    /\ op' = "clear"
    /\ err' = Ok
    /\ returned' = None
    /\ nPush' = 0
    /\ nPop' = 0
    /\ phase' = "fill"
    /\ pushed' = NoCounts
    /\ out' = <<>>
    /\ UNCHANGED <<debug, stepVars>>

Next ==
    \/ \E v \in Inputs : Push(v)
    \/ \E items \in Lists : PushList(items)
    \/ Pop
    \/ Clear

Spec == Init /\ [][Next]_vars

\* The same heap driven only by arguments that convert to ordered numbers:
\* no call is handed a NaN.
Ordered(v) == CanConvert(v) => ToFloat(v) # NaN

OrderedInputs == {v \in Inputs : Ordered(v)}

OrderedLists == {items \in Lists : \A i \in 1 .. Len(items) : Ordered(items[i])}

NextOrdered ==
    \/ \E v \in OrderedInputs : Push(v)
    \/ \E items \in OrderedLists : PushList(items)
    \/ Pop
    \/ Clear

SpecOrdered == Init /\ [][NextOrdered]_vars

\* ---------------------------------------------------------------- __str__
\* int(math.log(size, 2)) of line 211 for size >= 1.  The quotient of doubles
\* log(size) / log(2) truncates to the exact floor of the logarithm for every
\* size below 2^48 - 1, far beyond any list that fits in memory.
RECURSIVE floor_log2(_)
floor_log2(size) == IF size <= 1 THEN 0 ELSE 1 + floor_log2(size \div 2)

RECURSIVE pow2(_)
pow2(n) == IF n = 0 THEN 1 ELSE 2 * pow2(n - 1)

\* self.data[start_idx:end_idx]: a slice stops at the end of the list.
slice(d, start_idx, end_idx) ==
    SubSeq(d, start_idx + 1, IF end_idx < Len(d) THEN end_idx ELSE Len(d))

\* A line of the text: the '-----' delimiter, or the values of one layer (the
\* str of each, joined by spaces).
Delimiter == [delim |-> TRUE, values |-> <<>>]

ValuesLine(xs) == [delim |-> FALSE, values |-> xs]

\* A __str__ that leaves out the deepest layer: range(height).
render_short(d) ==
    IF Len(d) = 0 THEN <<>>
    ELSE LET size == Len(d)
             height == floor_log2(size)
             output_lines == [layer \in 1 .. height |->
                 ValuesLine(slice(d, pow2(layer - 1) - 1, pow2(layer) - 1))]
         IN <<Delimiter>> \o output_lines \o <<Delimiter>>

\* The lines of str(heap) (lines 207-223); no line at all is the empty string.
render(d) ==
    IF Len(d) = 0 THEN <<>>
    ELSE LET size == Len(d)
             height == floor_log2(size)
             output_lines == [layer \in 1 .. height + 1 |->
                 ValuesLine(slice(d, pow2(layer - 1) - 1, pow2(layer) - 1))]
         IN <<Delimiter>> \o output_lines \o <<Delimiter>>

\* A __str__ that takes the values out of the list as it writes them.
str_call_consumes(h) == [h |-> [h EXCEPT !.data = <<>>], lines |-> render(h.data)]

\* A call of __str__: the heap afterwards and the text returned.  The method
\* only reads self.data.
str_call(h) == [h |-> h, lines |-> render(h.data)]

\* The text variable: a tree (or none), and the line printed after it.
Text(tree, line, num) == [tree |-> tree, line |-> line, num |-> num]

NoText == Text(<<>>, "", 0)

\* The debug branch that opens _bubble_up and _bubble_down (lines 146-148,
\* 172-174): with debug set, str(self) is called and printed.
debug_branch(h, dbg) == IF dbg THEN str_call(h).h ELSE h

\* ------------------------------------------------ calls, one step at a time
\* The call in progress returns or raises: nothing of it is left.
Return ==
    /\ pc' = "idle"
    /\ idx' = 0
    /\ swaps' = 0
    /\ before' = <<>>
    /\ arg' = Number(0)

\* h.push(v) for a v that is no list, up to the call of _bubble_up (lines 70-76).
CallPush(v) ==
    /\ pc = "idle"
    /\ Len(data) < MaxOps
    /\ op' = "push"
    /\ returned' = None
    /\ smaller_idx' = None
    /\ IF ~CanConvert(v)
       THEN /\ err' = ValueError
            /\ Return
            /\ text' = NoText
            /\ UNCHANGED data
       ELSE /\ err' = Ok
            /\ data' = append(data, ToFloat(v))
            /\ text' = IF debug THEN Text(<<>>, "pushing value", ToFloat(v)) ELSE NoText
            /\ pc' = "up"
            /\ idx' = Len(data') - 1
            /\ swaps' = 0
            /\ before' = data
            /\ arg' = v
    /\ UNCHANGED <<debug, countVars>>

\* One invocation of _bubble_up (lines 146-157).
UpStep ==
    /\ pc = "up"
    /\ LET r == up_step(debug_branch(Heap(data), debug), idx)
       IN /\ data' = r.h.data
          /\ err' = r.h.err
          /\ IF r.swapped /\ r.h.err = Ok
             THEN /\ pc' = "up"
                  /\ idx' = r.idx
                  /\ swaps' = swaps + 1
                  /\ UNCHANGED <<before, arg>>
             ELSE Return
    /\ text' = IF debug THEN Text(str_call(Heap(data)).lines, "bubbling up index", idx)
               ELSE NoText
    /\ UNCHANGED <<debug, op, returned, smaller_idx, countVars>>

\* h.pop(), up to the call of _bubble_down (lines 88-100).
CallPop ==
    /\ pc = "idle"
    /\ op' = "pop"
    /\ smaller_idx' = None
    /\ IF Len(data) < 2
       THEN /\ LET r == pop(data)
               IN /\ data' = r.data
                  /\ err' = r.err
                  /\ returned' = r.value
            /\ Return
       ELSE /\ LET size == Len(data)
                   last_idx == size - 1
                   swapped == swap(Heap(data), 0, last_idx)
               IN /\ data' = list_pop(swapped.data)
                  /\ err' = swapped.err
                  /\ returned' = swapped.data[size]
                  /\ IF swapped.err = Ok
                     THEN /\ pc' = "down"
                          /\ idx' = 0
                          /\ swaps' = 0
                          /\ before' = data
                          /\ arg' = Number(0)
                     ELSE Return
    /\ text' = NoText
    /\ UNCHANGED <<debug, countVars>>

\* One invocation of _bubble_down (lines 172-196).
DownStep ==
    /\ pc = "down"
    /\ LET h == debug_branch(Heap(data), debug)
           r == down_step(h, idx)
       IN /\ data' = r.h.data
          /\ err' = r.h.err
          /\ smaller_idx' = IF get_value(h, get_left_idx(idx)) = None
                            THEN None ELSE smaller_child(h, idx)
          /\ IF r.swapped /\ r.h.err = Ok
             THEN /\ pc' = "down"
                  /\ idx' = r.idx
                  /\ swaps' = swaps + 1
                  /\ UNCHANGED <<before, arg>>
             ELSE Return
    /\ text' = IF debug THEN Text(str_call(Heap(data)).lines, "bubbling down index", idx)
               ELSE NoText
    /\ UNCHANGED <<debug, op, returned, countVars>>

\* h.clear()
CallClear ==
    /\ pc = "idle"
    /\ data' = clear(data)
    /\ op' = "clear"
    /\ err' = Ok
    /\ returned' = None
    /\ smaller_idx' = None
    /\ Return
    /\ text' = NoText
    /\ UNCHANGED <<debug, countVars>>

\* str(h)
CallStr ==
    /\ pc = "idle"
    /\ LET r == str_call(Heap(data))
       IN /\ data' = r.h.data
          /\ text' = Text(r.lines, "str", 0)
    /\ op' = "str"
    /\ err' = Ok
    /\ returned' = None
    /\ smaller_idx' = None
    /\ Return
    /\ UNCHANGED <<debug, countVars>>

InitSteps == \E dbg \in BOOLEAN : Constructed(dbg)

NextSteps ==
    \/ \E v \in Inputs : CallPush(v)
    \/ CallPop
    \/ CallClear
    \/ CallStr
    \/ UpStep
    \/ DownStep

SpecSteps == InitSteps /\ [][NextSteps]_vars

\* A call runs to completion: a sift that has a step to take takes it.
FairSteps == SpecSteps /\ WF_vars(UpStep) /\ WF_vars(DownStep)

\* The calls that sift, on a heap constructed with the default debug=False.
NextSifts ==
    \/ \E v \in Inputs : CallPush(v)
    \/ CallPop
    \/ UpStep
    \/ DownStep

FairSifts == Init /\ [][NextSifts]_vars /\ WF_vars(UpStep) /\ WF_vars(DownStep)

\* The same calls when no argument converts to NaN.
NextOrderedSifts ==
    \/ \E v \in OrderedInputs : CallPush(v)
    \/ CallPop
    \/ UpStep
    \/ DownStep

FairOrderedSifts ==
    Init /\ [][NextOrderedSifts]_vars /\ WF_vars(UpStep) /\ WF_vars(DownStep)

\* ------------------------------------------------------------- properties
\* Python's a <= b on floats: False whenever either side is NaN.
Le(a, b) == a # NaN /\ b # NaN /\ a <= b

IsHeap(d) ==
    \A i \in 1 .. Len(d) - 1 : Le(d[((i - 1) \div 2) + 1], d[i + 1])

\* No stored value is strictly smaller than x.
IsMinimumOf(x, d) == \A i \in 1 .. Len(d) : ~Lt(d[i], x)

\* No value of the sequence is followed by a strictly smaller one.
NonDecreasing(s) == \A i \in 1 .. Len(s) - 1 : ~Lt(s[i + 1], s[i])

RECURSIVE Total(_, _)
Total(f, S) ==
    IF S = {} THEN 0
    ELSE LET x == CHOOSE y \in S : TRUE
         IN f[x] + Total(f, S \ {x})

\* C1: after every completed push, pop or clear, every index i > 0 of the
\* array satisfies elements[(i-1) div 2] <= elements[i].
HeapInvariant == IsHeap(data)

\* C2: a successful push of v adds exactly one copy of the converted v to the
\* multiset of stored values; a successful pop returns the value at index 0,
\* which is a minimum of the multiset held before the call, and removes
\* exactly one copy of it, every other multiplicity unchanged.
RefinesPriorityQueue ==
    [][/\ \A v \in Inputs :
             (op' = "push" /\ CanConvert(v) /\ Push(v)) =>
                 Counts(data') = Plus(Counts(data), Counts(<<ToFloat(v)>>))
       /\ (op' = "pop" /\ err' = Ok) =>
             /\ returned' = data[1]
             /\ IsMinimumOf(returned', data)
             /\ Counts(data) = Plus(Counts(data'), Counts(<<returned'>>))]_vars

\* C3: n values pushed onto an empty heap and then popped n times come out
\* in non-decreasing order, are exactly the values pushed, and leave the
\* heap empty.
ExtractionOrder ==
    (phase = "drain" /\ Len(out) = Total(pushed, Floats)) =>
        /\ data = <<>>
        /\ NonDecreasing(out)
        /\ Counts(out) = pushed

\* C4: the length of the array is the number of successful single-value
\* pushes minus the number of successful pops since the last clear; a
\* successful push grows it by exactly one and a successful pop shrinks it by
\* exactly one.
SizeTracking ==
    [][/\ Len(data) = nPush - nPop
       /\ Len(data') = nPush' - nPop'
       /\ (op' = "push" /\ err' = Ok) => Len(data') = Len(data) + 1
       /\ (op' = "pop" /\ err' = Ok) => Len(data') = Len(data) - 1]_vars

\* C5: pop on an empty heap raises MinHeapError ("Heap is empty"), returns
\* nothing and leaves the array empty; a push that follows works as on any
\* empty heap.
PopOnEmptyFails ==
    [][/\ (Pop /\ data = <<>>) =>
             (err' = HeapIsEmpty /\ returned' = None /\ data' = <<>>)
       /\ \A v \in Inputs :
             (op = "pop" /\ err = HeapIsEmpty /\ CanConvert(v) /\ Push(v)) =>
                 (err' = Ok /\ data' = <<ToFloat(v)>>)]_vars

\* C6: a single-value push whose argument does not convert raises ValueError
\* and leaves the array, position by position, as it was.
BadPushChangesNothing ==
    [][\A v \in Inputs :
          (op' = "push" /\ ~CanConvert(v) /\ Push(v)) =>
              (err' = ValueError /\ data' = data)]_vars

\* C7: a list push that raises ValueError leaves the array as it was before
\* the call.
BadListPushChangesNothing ==
    [][(op' = "push_list" /\ err' = ValueError) => data' = data]_vars

\* C8: after any call that ended in an error the array satisfies the
\* min-heap invariant.
ErrorKeepsInvariant == err # Ok => IsHeap(data)

\* C9: clear never raises and leaves the array empty, which is the state of a
\* newly constructed heap, whatever the array held before; a second clear
\* changes nothing.
ClearResets ==
    [][Clear => (err' = Ok /\ data' = <<>> /\ (op = "clear" => data' = data))]_vars

\* The array after single-value pushes of the items, one call per item.
RECURSIVE AfterSinglePushes(_, _)
AfterSinglePushes(d, items) ==
    IF items = <<>> THEN d
    ELSE AfterSinglePushes(push_value(Call(d), Head(items)).data, Tail(items))

\* C10: on every heap the program can hold, one list push of convertible
\* values (any list the heap has room for) raises nothing and leaves the same array as single-value pushes of
\* the same values in the same order.
ListPushIsSinglePushes ==
    \A items \in Lists :
        (nPush + Len(items) <= MaxOps /\ \A i \in 1 .. Len(items) : CanConvert(items[i])) =>
            LET c == push_list(Call(data), items)
            IN c.err = Ok /\ c.data = AfterSinglePushes(data, items)

\* C11: the debug flag has no effect on what a call does: with debug set or
\* not, every push, pop and clear leaves the array, raises the exception and
\* returns the value that the array before the call and the argument
\* determine.
DebugHasNoEffect ==
    [][/\ (pc = "up" /\ pc' = "idle") =>
             LET c == push_value(Call(before), arg)
             IN data' = c.data /\ err' = c.err /\ returned' = None
       /\ (pc = "down" /\ pc' = "idle") =>
             LET r == pop(before)
             IN data' = r.data /\ err' = r.err /\ returned' = r.value
       /\ \A v \in Inputs :
             (pc = "idle" /\ pc' = "idle" /\ CallPush(v)) =>
                 LET c == push_value(Call(data), v)
                 IN data' = c.data /\ err' = c.err /\ returned' = None
       /\ (pc = "idle" /\ pc' = "idle" /\ CallPop) =>
             LET r == pop(data)
             IN data' = r.data /\ err' = r.err /\ returned' = r.value
       /\ CallClear => (data' = <<>> /\ err' = Ok /\ returned' = None)]_vars

\* The two children of the node about to be sifted down exist and hold equal
\* numbers.
ChildrenTied ==
    /\ pc = "down"
    /\ get_right_idx(idx) < Len(data)
    /\ data[get_left_idx(idx) + 1] # NaN
    /\ data[get_left_idx(idx) + 1] = data[get_right_idx(idx) + 1]

\* C12 as stated: when both children hold equal values the left child is the
\* one selected, and the right child is selected only if its value is strictly
\* less than the left one.
LeftChildOnTies ==
    [][/\ ChildrenTied => smaller_idx' = get_left_idx(idx)
       /\ (pc = "down" /\ smaller_idx' = get_right_idx(idx)) =>
             Lt(data[get_right_idx(idx) + 1], data[get_left_idx(idx) + 1])]_vars

\* C12, amended: at every sift-down step of a node with a child, the left
\* child is selected exactly when there is no right child or the left value is
\* strictly less than the right value; otherwise, and so whenever the two
\* values are equal, the right child is selected.  A swap is made with the
\* selected child.
RightChildOnTies ==
    [][(pc = "down" /\ get_left_idx(idx) < Len(data)) =>
          /\ smaller_idx' \in {get_left_idx(idx), get_right_idx(idx)}
          /\ (smaller_idx' = get_left_idx(idx)) <=>
                \/ get_right_idx(idx) >= Len(data)
                \/ Lt(data[get_left_idx(idx) + 1], data[get_right_idx(idx) + 1])
          /\ ChildrenTied => smaller_idx' = get_right_idx(idx)
          /\ pc' = "down" => idx' = smaller_idx']_vars

\* C13: no call ends in "Root node has no parent" or "Node does not exist",
\* and every index handed to a sift is an index of the array, so that
\* _get_parent_idx is never given 0 and _set_value never an index past the end.
NoInternalError ==
    /\ err \notin {RootHasNoParent, NodeDoesNotExist}
    /\ pc # "idle" => (0 <= idx /\ idx < Len(data))

\* The array with the values at source indices i and j exchanged.
Exchanged(d, i, j) == [d EXCEPT ![i + 1] = d[j + 1], ![j + 1] = d[i + 1]]

\* ceil(log2(m)) and floor(log2(m)) for m >= 1.
CeilLog2(m) == CHOOSE k \in 0 .. m : 2^k >= m /\ (k = 0 \/ 2^(k - 1) < m)

FloorLog2(m) == CHOOSE k \in 0 .. m : 2^k <= m /\ m < 2^(k + 1)

\* The sifted node is at the root or is not strictly less than its parent.
UpStops ==
    \/ idx = 0
    \/ ~Lt(data[idx + 1], data[((idx - 1) \div 2) + 1])

\* C14: sift-up ends, and ends exactly when the node is at index 0 or its
\* value is not strictly less than its parent's (equal values are not
\* swapped); until then each invocation swaps the node with its parent and
\* goes on from the parent's index, and the swaps number at most
\* ceil(log2(n + 1)) for the n elements held after the append.
SiftUpTerminates ==
    /\ [][pc = "up" =>
             /\ (pc' = "idle") <=> UpStops
             /\ UpStops => data' = data
             /\ ~UpStops =>
                   /\ pc' = "up"
                   /\ idx' = (idx - 1) \div 2
                   /\ 0 <= idx' /\ idx' < idx
                   /\ swaps' = swaps + 1
                   /\ data' = Exchanged(data, idx, idx')
                   /\ swaps' <= CeilLog2(Len(data) + 1)]_vars
    /\ (pc = "up") ~> (pc = "idle")

\* The value of the smaller child of index i, which has a left child: the
\* left child's, unless the right child exists and is strictly less.
SmallerChildValue(d, i) ==
    LET left == d[(2 * i + 1) + 1]
    IN IF 2 * i + 2 < Len(d) /\ Lt(d[(2 * i + 2) + 1], left)
       THEN d[(2 * i + 2) + 1]
       ELSE left

\* The node being sifted down has no child, or is not strictly greater than
\* its smaller child.
DownStops ==
    \/ 2 * idx + 1 >= Len(data)
    \/ ~Gt(data[idx + 1], SmallerChildValue(data, idx))

\* C15: sift-down ends, and ends exactly when the node has no children or its
\* value is not strictly greater than the smaller child's; until then each
\* invocation swaps the node with a child and goes on from the child's
\* index, which is larger, and the swaps number at most floor(log2(n)) for the
\* n elements left after the removal.
SiftDownTerminates ==
    /\ [][pc = "down" =>
             /\ (pc' = "idle") <=> DownStops
             /\ DownStops => data' = data
             /\ ~DownStops =>
                   /\ pc' = "down"
                   /\ idx' \in {2 * idx + 1, 2 * idx + 2}
                   /\ idx < idx' /\ idx' < Len(data)
                   /\ swaps' = swaps + 1
                   /\ data' = Exchanged(data, idx, idx')
                   /\ swaps' <= FloorLog2(Len(data))]_vars
    /\ (pc = "down") ~> (pc = "idle")

\* The indices on the path from index i up to the root, both included.
RECURSIVE AncestorPath(_)
AncestorPath(i) == IF i = 0 THEN {0} ELSE {i} \cup AncestorPath((i - 1) \div 2)

\* new is old with v appended and then moved up the path from the new index
\* to some index k on it: below k the path holds what its parents held, and
\* every other index holds what it held.
PushFrame(old, v, new) ==
    LET n == Len(old)
        path == AncestorPath(n)
    IN /\ Len(new) = n + 1
       /\ \A i \in 0 .. n - 1 : i \notin path => new[i + 1] = old[i + 1]
       /\ \E k \in path :
             /\ new[k + 1] = v
             /\ \A i \in path :
                   /\ i > k => new[i + 1] = old[((i - 1) \div 2) + 1]
                   /\ i < k => new[i + 1] = old[i + 1]
       /\ (n > 0 /\ ~Lt(v, old[((n - 1) \div 2) + 1])) => SubSeq(new, 1, n) = old

\* C16: a successful push of one value v onto a heap of length n changes
\* only positions on the path from index n up to the root: every other index
\* holds its former value, each value displaced on the path has moved to the
\* child position on the path, and when v is not strictly less than the value
\* at parent(n) the first n positions are unchanged.
PushChangesOnlyAncestorPath ==
    [][(pc = "up" /\ pc' = "idle" /\ err' = Ok) =>
          PushFrame(before, ToFloat(arg), data')]_vars

\* The pair (parent(i), i) of the array is in heap order.
PairInOrder(i) == Le(data[((i - 1) \div 2) + 1], data[i + 1])

\* C17: at every step of the sift-up of a push onto a heap that satisfied the
\* invariant, every parent/child pair other than (parent(idx), idx), for the
\* index idx being sifted, is in heap order.
SiftUpViolationIsLocal ==
    (pc = "up" /\ IsHeap(before)) =>
        \A i \in 1 .. Len(data) - 1 : i # idx => PairInOrder(i)

\* C18: at every step of the sift-down of a pop from a heap that satisfied
\* the invariant, once the former last element is at the root, every
\* parent/child pair whose parent is not the index idx being sifted is in
\* heap order, the pair (parent(idx), idx) included.
SiftDownViolationIsLocal ==
    (pc = "down" /\ IsHeap(before)) =>
        \A i \in 1 .. Len(data) - 1 : (i - 1) \div 2 # idx => PairInOrder(i)

\* The values of a sequence of lines, one line after the other.
RECURSIVE Flatten(_)
Flatten(lines) ==
    IF lines = <<>> THEN <<>> ELSE Head(lines).values \o Flatten(Tail(lines))

\* The line of depth dep in the text of an array d of n >= 1 elements: the
\* elements at indices 2^dep - 1 up to 2^(dep+1) - 2 that exist, in order.
DepthLine(d, dep) ==
    LET lo == 2^dep - 1
        hi == IF 2^(dep + 1) - 2 < Len(d) - 1 THEN 2^(dep + 1) - 2 ELSE Len(d) - 1
    IN [delim |-> FALSE, values |-> [j \in 1 .. hi - lo + 1 |-> d[lo + j]]]

\* lines is the string form of the array d.
Rendered(d, lines) ==
    IF Len(d) = 0 THEN lines = <<>>
    ELSE LET height == FloorLog2(Len(d))
         IN /\ Len(lines) = height + 3
            /\ lines[1] = [delim |-> TRUE, values |-> <<>>]
            /\ lines[height + 3] = [delim |-> TRUE, values |-> <<>>]
            /\ \A dep \in 0 .. height :
                  /\ lines[dep + 2] = DepthLine(d, dep)
                  /\ lines[dep + 2].values # <<>>
            /\ Flatten(lines) = d

\* C19: the string form of a heap of n >= 1 elements is a delimiter line, one
\* line for each depth 0 .. floor(log2 n) holding the elements of that depth
\* that exist in index order, none of them empty, and a delimiter line, so
\* that every element appears once; the string form of the empty heap is
\* empty; producing it leaves the array unchanged.
StrRendersByDepth ==
    [][op' = "str" => (data' = data /\ Rendered(data, text'.tree))]_vars

\* ------------------------------------------------------------- reachability
\* C4: pushes and pops have both succeeded and the heap is not empty.
SizeTrackingReached ==
    op = "pop" /\ err = Ok /\ nPush >= 3 /\ nPop >= 2 /\ Len(data) >= 1

\* C5: a heap that was filled and emptied has refused a further pop.
PopOnEmptyReached ==
    op = "pop" /\ err = HeapIsEmpty /\ data = <<>> /\ nPop >= 1

\* C6: a single-value push was refused on a heap of three or more elements.
BadPushReached == op = "push" /\ err = ValueError /\ Len(data) >= 3

\* C9: a clear has run.
ClearReached == op = "clear" /\ err = Ok /\ data = <<>>

\* C10: a list push of convertible values has run on a heap that had already
\* been pushed to and popped from.
ListPushReached ==
    op = "push_list" /\ err = Ok /\ Len(data) >= 3 /\ nPop >= 1

\* C11: with debug set, a pop has sifted down and printed the tree.
DebugPopReached ==
    /\ debug
    /\ pc = "idle"
    /\ op = "pop"
    /\ text.line = "bubbling down index"
    /\ text.num > 0
    /\ Len(data) >= 3

\* C12: the root was swapped with its right child, whose value equalled the
\* left child's.
TieReached ==
    /\ pc = "down"
    /\ swaps = 1
    /\ idx = 2
    /\ smaller_idx = 2
    /\ data[1] # NaN
    /\ data[1] = data[2]

\* C13: a pushed value was swapped twice and stands at the root, about to be
\* handed to _bubble_up again.
RootReached == pc = "up" /\ idx = 0 /\ swaps = 2

\* C14: a pushed value has risen from the bottom of a four-element heap to
\* the root.
TwoSwapsUpReached == pc = "up" /\ swaps = 2 /\ idx = 0 /\ Len(data) >= 4

\* C16: a push onto four elements is about to return after moving its value
\* from index 4 to the root, past indices 2 and 3 that are off the path.
PushPathReached ==
    /\ pc = "up" /\ Len(before) = 4 /\ idx = 0 /\ swaps = 2
    /\ data[1] = ToFloat(arg) /\ data[2] = before[1] /\ data[5] = before[2]
    /\ before[3] # before[4]

\* C17: after one swap the sifted pair is the one out of order, in a heap
\* with other pairs to keep in order.
SiftUpViolationReached ==
    /\ pc = "up" /\ IsHeap(before) /\ Len(data) = 5
    /\ swaps = 1 /\ idx = 1 /\ ~PairInOrder(idx)

\* C18: after one swap the sifted node, below the root, is above a smaller
\* child, and its own parent is above it in order.
SiftDownViolationReached ==
    /\ pc = "down" /\ IsHeap(before) /\ Len(data) = 4
    /\ swaps = 1 /\ idx = 1 /\ ~PairInOrder(3) /\ PairInOrder(idx)

\* C19: the string form of five elements has been produced: three depths,
\* the deepest one partly filled.
StrOfFiveReached ==
    /\ op = "str" /\ Len(data) = 5 /\ Len(text.tree) = 5
    /\ Len(text.tree[4].values) = 2

====
